---- MODULE Spec2Model ----
(***************************************************************************)
(* Model of AnalyticsService (services/analytics.service.ts): the per-date *)
(* write buffer, its flush timers, the partition files and the range       *)
(* query.  JavaScript runs each handler to its next await atomically, so   *)
(* every action below is one such run-to-await segment.                    *)
(***************************************************************************)
EXTENDS Integers, Sequences, FiniteSets, TLC

\* ---- program constants ----
batchSize == 10
DefaultChannelDays == 30  \* getChannelStats: days back when no startDate is given
TopCommands == 5          \* entries of mostUsedCommands and topCommands
HoursPerDay == 24         \* buckets of hourlyDistribution
DefaultStatsDays == 7

\* ---- bounds of the model ----
TicksPerDay == 2      \* clock instants per UTC calendar day
MaxTime == 2          \* last clock instant the model reaches
MaxEvents == 2        \* logEvent calls made after the initial state
MaxInFlight == 2      \* appendFile calls awaiting completion at once
MaxFailures == 1      \* appendFile calls that fail
MaxCalls == 1         \* query and cleanup calls
MaxPartition == 2     \* lines of a partition that exists before a query run

VARIABLES
  now,           \* Date.now(), in clock instants
  created,       \* every event logEvent has built so far, in creation order
  writeQueue,    \* Map<dateKey, AnalyticsEvent[]> in insertion order
  writeTimeout,  \* Map<dateKey, Timeout>: "none" | "pending" | "fired"
  armed,         \* per date-key, timers the runtime still has to fire
  files,         \* per date-key, the lines of analytics-<date>.json
  appends,       \* flushEvents invocations between start and resumption
  nfail,         \* appendFile calls that have failed
  returned,      \* eventIds whose logEvent call resolved
  thrown,        \* eventIds whose logEvent call rejected
  logged,        \* per date-key, errors the timer callback gave logger.error
  duringFlush,   \* eventIds pushed while a flush of their key awaited append
  query,         \* the getEventsInRange call in progress (or the last one)
  cleanupCall,   \* the cleanup call in progress (or the last one)
  calls,         \* logEvent, query and cleanup calls made so far
  handler,       \* the handleAppMention / handleDirectMessage call in progress
  proc,          \* the bot process: running, stopping after a signal, exited
  logsDirectory  \* the log directory: "creating" (absent, mkdir pending) | "present"

vars == <<now, created, writeQueue, writeTimeout, armed, files, appends,
          nfail, returned, thrown, logged, duringFlush, query, cleanupCall,
          calls, handler, proc, logsDirectory>>
\* the state outside the analytics service
bot == <<handler, proc>>

\* ---- dates ----
Times == 0..MaxTime
\* date.toISOString().split('T')[0]: the UTC calendar date of an instant
KeyOf(t) == t \div TicksPerDay
\* new Date('YYYY-MM-DD'): UTC midnight of that date
DateOfKey(k) == k * TicksPerDay
\* getLogFilePath: the partition is named by the UTC date of the instant
getLogFilePath_Today(t) == KeyOf(now)
getLogFilePath(t) == KeyOf(t)
Keys == {KeyOf(t) : t \in Times}

\* ---- events ----
\* the eventData the callers pass to logEvent
LogInputs ==
  {[user |-> "U1", channel |-> "C1", command |-> "help", errorStatus |-> "absent"]}

\* { ...eventData, eventId, timestamp }: the assigned fields win
MakeEvent_CallerWins(eventData, id, t) ==
  [field \in DOMAIN eventData \cup {"eventId", "timestamp"} |->
     IF field \in DOMAIN eventData THEN eventData[field]
     ELSE IF field = "eventId" THEN id ELSE t]
MakeEvent(eventData, id, t) ==
  [field \in DOMAIN eventData \cup {"eventId", "timestamp"} |->
     IF field = "eventId" THEN id
     ELSE IF field = "timestamp" THEN t
     ELSE eventData[field]]

Ids(evs) == {evs[i].eventId : i \in DOMAIN evs}

\* ---- JSON lines ----
\* the value undefined; the optional members coded as strings can hold it
undefined == "absent"
StringMembers ==
  {"user", "channel", "channelType", "command", "query", "errorStatus",
   "threadTs"}
\* object.member: undefined when the object has no such member
Member(object, member) ==
  IF member \in DOMAIN object THEN object[member] ELSE undefined
\* JSON.stringify(event): a line is modelled by the members of the object it
\* spells; a member whose value is undefined is left out
JSONstringify(event) ==
  [member \in {m \in DOMAIN event :
                 ~(m \in StringMembers /\ event[m] = undefined)} |->
     event[member]]
\* events.map(event => JSON.stringify(event)), one line per event
EventLines(events) == [i \in DOMAIN events |-> JSONstringify(events[i])]
\* JSON.parse(line): the object with the members the line spells
JSONparse(line) == line

\* ---- Map<dateKey, AnalyticsEvent[]> ----
Has(wq, k) == \E i \in DOMAIN wq : wq[i].dateKey = k
Get(wq, k) ==
  IF Has(wq, k) THEN (CHOOSE en \in {wq[i] : i \in DOMAIN wq} : en.dateKey = k).events
  ELSE <<>>
Delete_All(wq, k) == <<>>
Delete(wq, k) == SelectSeq(wq, LAMBDA en : en.dateKey # k)
Push(wq, k, e) ==
  IF Has(wq, k)
  THEN [i \in DOMAIN wq |->
          IF wq[i].dateKey = k
          THEN [wq[i] EXCEPT !.events = Append(@, e)] ELSE wq[i]]
  ELSE Append(wq, [dateKey |-> k, events |-> <<e>>])
MapKeys(wq) == [i \in DOMAIN wq |-> wq[i].dateKey]

\* a live Map iterator: the keys it still has to visit
IterDelete(it, k) == SelectSeq(it, LAMBDA x : x # k)
IterInsert(it, k, active) == IF active THEN Append(it, k) ELSE it

\* ---- flushEvents, up to its await ----
\* the batch is serialised when appendEventsToFile is called, so the
\* invocation carries a snapshot of the queue
Flight(k, owner, ev) ==
  [dateKey |-> k, events |-> EventLines(Get(writeQueue, k)), owner |-> owner,
   ev |-> ev, stage |-> "io"]
FlightOn(wq, k, owner, ev) ==
  [dateKey |-> k, events |-> EventLines(Get(wq, k)), owner |-> owner,
   ev |-> ev, stage |-> "io"]
InFlight(k) == {f \in appends : f.dateKey = k}
Awaiting(k) == {f \in appends : f.dateKey = k /\ f.stage = "io"}

\* flushEvents after a successful append: delete the queue, clear the timer
ClearedTimeout_Kept(k) == writeTimeout
ClearedTimeout(k) == [writeTimeout EXCEPT ![k] = "none"]
ClearedArmed_Kept(k) == armed
ClearedArmed(k) ==
  [armed EXCEPT ![k] = IF writeTimeout[k] = "pending" THEN @ - 1 ELSE @]

\* an AnalyticsQuery is a record holding the fields the caller supplied
NoQuery == [hasError |-> "unset"]

IdleQuery ==
  [pc |-> "idle", iter |-> <<>>, startDate |-> 0, endDate |-> 0,
   query |-> NoQuery, currentDate |-> 0, events |-> <<>>, result |-> <<>>,
   status |-> "none", prior |-> {}]
IdleCleanup == [pc |-> "idle", iter |-> <<>>, status |-> "none", prior |-> {}]
\* no handler call in progress; the process as startBot leaves it
IdleHandler ==
  [pc |-> "idle", name |-> "none", replied |-> FALSE, errorStatus |-> "absent",
   rethrow |-> FALSE, ev |-> 0, caught |-> FALSE, outcome |-> "none"]
Started == [state |-> "running", signal |-> "none", buffered |-> {}]

\* ---- getEventsInRange helpers ----
\* fs.readFile: the lines of the file, or ENOENT when there is no file
readFile(filePath) ==
  IF filePath \in DOMAIN files
  THEN [code |-> "none", lines |-> files[filePath]]
  ELSE [code |-> "ENOENT", lines |-> <<>>]
\* JSON.parse(line) returns a record for the lines appendEventsToFile wrote
Parses(line) == "eventId" \in DOMAIN line
\* loadEventsFromFile: the parsed lines, [] when the file does not exist;
\* it throws when a line does not parse
loadEventsFromFile_Strict(filePath) ==
  LET file == readFile(filePath)
  IN IF file.code = "none" /\ \A i \in DOMAIN file.lines : Parses(file.lines[i])
     THEN [threw |-> FALSE,
           events |-> [i \in DOMAIN file.lines |-> JSONparse(file.lines[i])]]
     ELSE [threw |-> TRUE, events |-> <<>>]
loadEventsFromFile(filePath) ==
  LET file == readFile(filePath)
  IN IF file.code = "ENOENT" \/ \A i \in DOMAIN file.lines : Parses(file.lines[i])
     THEN [threw |-> FALSE,
           events |-> [i \in DOMAIN file.lines |-> JSONparse(file.lines[i])]]
     ELSE [threw |-> TRUE, events |-> <<>>]

\* the filter callback of getEventsInRange
Supplied(q, field) == field \in DOMAIN q /\ q[field] # ""
\* (event.errorStatus?.hasError || false)
HasError_Raw(event) == Member(event, "errorStatus")
HasError(event) ==
  IF Member(event, "errorStatus") = "true" THEN "true" ELSE "false"
Matches(event, startDate, endDate, q) ==
  /\ ~(event.timestamp < startDate \/ event.timestamp > endDate)
  /\ ~(Supplied(q, "channel") /\ event.channel # q.channel)
  /\ ~(Supplied(q, "user") /\ event.user # q.user)
  /\ ~(Supplied(q, "command") /\ event.command # q.command)
  /\ ~(q.hasError # "unset" /\ HasError(event) # q.hasError)

\* a date string is modelled by the instant it denotes; MalformedDate is a
\* string that denotes none, and NaN the time value of an Invalid Date
NaN == 0 - (DefaultChannelDays + 1) * TicksPerDay - MaxTime
MalformedDate == NaN - 1
\* new Date(dateString)
NewDate(dateString) == IF dateString = MalformedDate THEN NaN ELSE dateString
\* a <= b on Dates: false when either is an Invalid Date
DateLe(a, b) == a # NaN /\ b # NaN /\ a <= b
\* date.toISOString() throws a RangeError on an Invalid Date
toISOStringThrows(date) == date = NaN

\* getStats: the range it passes to getEventsInRange
StatsStart(q) ==
  IF "startDate" \in DOMAIN q THEN NewDate(q.startDate)
  ELSE now - DefaultStatsDays * TicksPerDay
StatsEnd(q) == IF "endDate" \in DOMAIN q THEN NewDate(q.endDate) ELSE now
\* getDailyStats: the UTC day window of a date
DayStart(date) == DateOfKey(KeyOf(date))
DayEnd(date) == DateOfKey(KeyOf(date)) + TicksPerDay - 1

\* events.sort((a, b) => a.timestamp.localeCompare(b.timestamp)): stable
RECURSIVE InsertByTimestamp(_, _)
InsertByTimestamp(sorted, e) ==
  IF sorted = <<>> THEN <<e>>
  ELSE IF Head(sorted).timestamp <= e.timestamp
       THEN <<Head(sorted)>> \o InsertByTimestamp(Tail(sorted), e)
       ELSE <<e>> \o sorted
RECURSIVE SortByTimestamp(_)
SortByTimestamp_None(evs) == evs
SortByTimestamp(evs) ==
  IF evs = <<>> THEN <<>>
  ELSE InsertByTimestamp(SortByTimestamp(SubSeq(evs, 1, Len(evs) - 1)),
                         evs[Len(evs)])

\* the keys a Map iterator still yields whose flushEvents does not return early
Flushable(it, wq) == SelectSeq(it, LAMBDA k : Get(wq, k) # <<>>)

\* the 9 events of a queue one short of a full batch
AlmostFullEvents ==
  [i \in 1..(batchSize - 1) |->
     MakeEvent(CHOOSE d \in LogInputs : TRUE, i, 0)]

InitFresh ==
  /\ created = <<>>
  /\ writeQueue = <<>>
  /\ writeTimeout = [k \in Keys |-> "none"]
  /\ armed = [k \in Keys |-> 0]
  /\ returned = {}

\* batchSize - 1 logEvent calls have returned at instant 0, timer not yet fired
InitAlmostFull ==
  /\ created = AlmostFullEvents
  /\ writeQueue = <<[dateKey |-> KeyOf(0), events |-> AlmostFullEvents]>>
  /\ writeTimeout = [k \in Keys |-> IF k = KeyOf(0) THEN "pending" ELSE "none"]
  /\ armed = [k \in Keys |-> IF k = KeyOf(0) THEN 1 ELSE 0]
  /\ returned = Ids(AlmostFullEvents)

Init ==
  /\ now = 0
  /\ InitFresh \/ InitAlmostFull
  /\ files = [k \in Keys |-> <<>>]
  /\ appends = {}
  /\ nfail = 0
  /\ thrown = {}
  /\ logged = [k \in Keys |-> 0]
  /\ duringFlush = {}
  /\ query = IdleQuery
  /\ cleanupCall = IdleCleanup
  /\ calls = [log |-> 0, other |-> 0]
  /\ handler = IdleHandler
  /\ proc = Started
  /\ logsDirectory = "present"

\* the clock advances
Tick ==
  /\ now < MaxTime
  /\ now' = now + 1
  /\ UNCHANGED <<logsDirectory, created, writeQueue, writeTimeout, armed,
                 files, appends, nfail, returned, thrown, logged, duringFlush,
                 query, cleanupCall, calls>>

\* this.writeTimeout.has(dateKey)
HasTimeout_Never(k) == FALSE
HasTimeout(k) == writeTimeout[k] # "none"

\* setTimeout(callback, flushInterval): the runtime holds one more timer
SetTimeout_Dropped(k) == armed
SetTimeout(k) == [armed EXCEPT ![k] = @ + 1]

\* logEvent(eventData), up to its await (batch full) or its return
LogEvent(eventData) ==
  LET id == Len(created) + 1
      event == MakeEvent(eventData, id, now)
      dateKey == KeyOf(event.timestamp)
      isNew == ~Has(writeQueue, dateKey)
      wq == Push(writeQueue, dateKey, event)
      queuedEvents == Get(wq, dateKey)
      full == Len(queuedEvents) >= batchSize
  IN /\ calls.log < MaxEvents
     /\ full => Cardinality(appends) < MaxInFlight
     /\ calls' = [calls EXCEPT !.log = @ + 1]
     /\ created' = Append(created, event)
     /\ writeQueue' = wq
     /\ query' = [query EXCEPT
                    !.iter = IterInsert(@, dateKey, isNew /\ query.pc = "flush")]
     /\ cleanupCall' = [cleanupCall EXCEPT
                    !.iter = IterInsert(@, dateKey, isNew /\ cleanupCall.pc = "flush")]
     /\ duringFlush' = IF Awaiting(dateKey) # {} THEN duringFlush \cup {id}
                       ELSE duringFlush
     /\ IF full
        THEN /\ appends' = appends \cup {FlightOn(wq, dateKey, "log", id)}
             /\ UNCHANGED <<writeTimeout, armed, returned>>
        ELSE /\ IF ~HasTimeout(dateKey)
                THEN /\ writeTimeout' = [writeTimeout EXCEPT ![dateKey] = "pending"]
                     /\ armed' = SetTimeout(dateKey)
                ELSE UNCHANGED <<writeTimeout, armed>>
             /\ returned' = returned \cup {id}
             /\ UNCHANGED appends
     /\ UNCHANGED <<logsDirectory, now, files, nfail, thrown, logged>>

\* the setTimeout callback of logEvent: flushEvents(dateKey).catch(log)
TimerFire(k) ==
  /\ armed[k] > 0
  /\ armed' = [armed EXCEPT ![k] = @ - 1]
  /\ writeTimeout' = [writeTimeout EXCEPT ![k] = IF @ = "pending" THEN "fired" ELSE @]
  /\ IF Get(writeQueue, k) = <<>>
     THEN UNCHANGED appends
     ELSE /\ Cardinality(appends) < MaxInFlight
          /\ appends' = appends \cup {Flight(k, "timer", 0)}
  /\ UNCHANGED <<logsDirectory, now, created, writeQueue, files, nfail, returned, thrown,
                 logged, duringFlush, query, cleanupCall, calls>>

\* fs.appendFile(filePath, eventLines): the lines go after the file's content
appendFile_Truncating(content, eventLines) == eventLines
appendFile(content, eventLines) == content \o eventLines

\* fs.appendFile succeeds: the serialised batch is appended to the partition,
\* which it creates when absent; it does not create the directory
AppendOk(f) ==
  /\ f \in appends /\ f.stage = "io"
  /\ logsDirectory = "present"
  /\ LET filePath == getLogFilePath(DateOfKey(f.dateKey))
     IN files' = [files EXCEPT ![filePath] = appendFile(@, f.events)]
  /\ appends' = (appends \ {f}) \cup {[f EXCEPT !.stage = "ok"]}
  /\ UNCHANGED <<logsDirectory, now, created, writeQueue, writeTimeout, armed, nfail,
                 returned, thrown, logged, duringFlush, query, cleanupCall,
                 calls>>

\* fs.appendFile fails: nothing is written, appendEventsToFile rethrows
AppendFail(f) ==
  /\ f \in appends /\ f.stage = "io"
  /\ nfail < MaxFailures
  /\ nfail' = nfail + 1
  /\ appends' = (appends \ {f}) \cup {[f EXCEPT !.stage = "err"]}
  /\ UNCHANGED <<logsDirectory, now, created, writeQueue, writeTimeout, armed, files,
                 returned, thrown, logged, duringFlush, query, cleanupCall,
                 calls>>

\* the rest of flushEvents after the await, for the Map and the timer
FlushTail(f) ==
  IF f.stage = "ok"
  THEN /\ writeQueue' = Delete(writeQueue, f.dateKey)
       /\ writeTimeout' = ClearedTimeout(f.dateKey)
       /\ armed' = ClearedArmed(f.dateKey)
  ELSE UNCHANGED <<writeQueue, writeTimeout, armed>>

\* logEvent resumes after its batch-size flush
LogEventResume(f) ==
  /\ f \in appends /\ f.stage # "io" /\ f.owner = "log"
  /\ FlushTail(f)
  /\ appends' = appends \ {f}
  /\ IF f.stage = "ok"
     THEN /\ returned' = returned \cup {f.ev}
          /\ UNCHANGED thrown
          /\ query' = [query EXCEPT !.iter = IterDelete(@, f.dateKey)]
          /\ cleanupCall' = [cleanupCall EXCEPT !.iter = IterDelete(@, f.dateKey)]
     ELSE /\ thrown' = thrown \cup {f.ev}
          /\ UNCHANGED <<returned, query, cleanupCall>>
  /\ UNCHANGED <<logsDirectory, now, created, files, nfail, logged, duringFlush, calls>>

\* the timer callback's flushEvents resumes; a rejection is logged
TimerFlushResume(f) ==
  /\ f \in appends /\ f.stage # "io" /\ f.owner = "timer"
  /\ FlushTail(f)
  /\ appends' = appends \ {f}
  /\ IF f.stage = "ok"
     THEN /\ UNCHANGED logged
          /\ query' = [query EXCEPT !.iter = IterDelete(@, f.dateKey)]
          /\ cleanupCall' = [cleanupCall EXCEPT !.iter = IterDelete(@, f.dateKey)]
     ELSE /\ logged' = [logged EXCEPT ![f.dateKey] = @ + 1]
          /\ UNCHANGED <<query, cleanupCall>>
  /\ UNCHANGED <<logsDirectory, now, created, files, nfail, returned, thrown, duringFlush,
                 calls>>

\* getEventsInRange from the flush barrier on: flush the next key the
\* iterator yields, or start loading partitions
QueryAdvance(q, it, wq, others) ==
  LET todo == Flushable(it, wq)
  IN IF todo # <<>>
     THEN /\ Cardinality(others) < MaxInFlight
          /\ query' = [q EXCEPT !.pc = "flush", !.iter = Tail(todo)]
          /\ appends' = others \cup {FlightOn(wq, Head(todo), "query", 0)}
     ELSE /\ appends' = others
          /\ IF DateLe(q.startDate, q.endDate)
             THEN query' = [q EXCEPT !.pc = "load", !.iter = <<>>,
                                     !.currentDate = q.startDate]
             ELSE query' = [q EXCEPT !.pc = "idle", !.iter = <<>>,
                                     !.status = "ok", !.result = <<>>]

\* getEventsInRange(startDate, endDate, query), up to its first await
GetEventsInRange(startDate, endDate, q) ==
  /\ query.pc = "idle"
  /\ calls.other < MaxCalls
  /\ calls' = [calls EXCEPT !.other = @ + 1]
  /\ QueryAdvance([IdleQuery EXCEPT !.startDate = startDate,
                                    !.endDate = endDate, !.query = q,
                                    !.prior = returned],
                  MapKeys(writeQueue), writeQueue, appends)
  /\ UNCHANGED <<logsDirectory, now, created, writeQueue, writeTimeout, armed, files,
                 nfail, returned, thrown, logged, duringFlush, cleanupCall>>

\* getStats(query)
GetStats(q) == GetEventsInRange(StatsStart(q), StatsEnd(q), q)

\* getDailyStats(date)
GetDailyStats(date) == GetEventsInRange(DayStart(date), DayEnd(date), NoQuery)

\* getStats({ startDate }) over the last day: the query the stats command
\* builds, here made on the instance that buffers the events
GetStatsSince ==
  GetStats([hasError |-> "unset", startDate |-> now - 1 * TicksPerDay])

\* the flush barrier of getEventsInRange resumes after one key's flush
QueryFlushResume(f) ==
  /\ f \in appends /\ f.stage # "io" /\ f.owner = "query"
  /\ FlushTail(f)
  /\ IF f.stage = "ok"
     THEN /\ QueryAdvance(query, IterDelete(query.iter, f.dateKey),
                          Delete(writeQueue, f.dateKey), appends \ {f})
          /\ cleanupCall' = [cleanupCall EXCEPT !.iter = IterDelete(@, f.dateKey)]
     ELSE /\ appends' = appends \ {f}
          /\ query' = [query EXCEPT !.pc = "idle", !.iter = <<>>,
                                    !.status = "error"]
          /\ UNCHANGED cleanupCall
  /\ UNCHANGED <<logsDirectory, now, created, files, nfail, returned, thrown, logged,
                 duringFlush, calls>>

\* one iteration of the while loop of getEventsInRange; after the last one
\* the sorted result is returned; a partition that fails to load ends the call
QueryLoad ==
  /\ query.pc = "load"
  /\ LET filePath == getLogFilePath(query.currentDate)
         loaded == loadEventsFromFile(filePath)
         dailyEvents == loaded.events
         filteredEvents ==
           SelectSeq(dailyEvents,
                     LAMBDA e : Matches(e, query.startDate, query.endDate,
                                        query.query))
         events == query.events \o filteredEvents
         currentDate == query.currentDate + TicksPerDay
     IN IF loaded.threw
        THEN query' = [query EXCEPT !.pc = "idle", !.events = <<>>,
                                    !.currentDate = 0, !.status = "error"]
        ELSE IF DateLe(currentDate, query.endDate)
        THEN query' = [query EXCEPT !.events = events,
                                    !.currentDate = currentDate]
        ELSE query' = [query EXCEPT !.pc = "idle", !.events = <<>>,
                                    !.currentDate = 0, !.status = "ok",
                                    !.result = SortByTimestamp(events)]
  /\ UNCHANGED <<logsDirectory, now, created, writeQueue, writeTimeout, armed, files,
                 appends, nfail, returned, thrown, logged, duringFlush,
                 cleanupCall, calls>>

\* cleanup from its second loop on: flush the next key or return
CleanupAdvance(c, it, wq, others) ==
  LET todo == Flushable(it, wq)
  IN IF todo # <<>>
     THEN /\ Cardinality(others) < MaxInFlight
          /\ cleanupCall' = [c EXCEPT !.pc = "flush", !.iter = Tail(todo)]
          /\ appends' = others \cup {FlightOn(wq, Head(todo), "cleanup", 0)}
     ELSE /\ appends' = others
          /\ cleanupCall' = [c EXCEPT !.pc = "idle", !.iter = <<>>,
                                      !.status = "ok"]

\* cleanup(): clear every timer, then start flushing the queues
Cleanup ==
  /\ cleanupCall.pc = "idle"
  /\ calls.other < MaxCalls
  /\ calls' = [calls EXCEPT !.other = @ + 1]
  /\ writeTimeout' = [k \in Keys |-> "none"]
  /\ armed' = [k \in Keys |->
                 IF writeTimeout[k] = "pending" THEN armed[k] - 1 ELSE armed[k]]
  /\ CleanupAdvance([IdleCleanup EXCEPT !.prior = Ids(created)],
                    MapKeys(writeQueue), writeQueue, appends)
  /\ UNCHANGED <<logsDirectory, now, created, writeQueue, files, nfail, returned, thrown,
                 logged, duringFlush, query>>

\* cleanup resumes after one key's flush
CleanupFlushResume(f) ==
  /\ f \in appends /\ f.stage # "io" /\ f.owner = "cleanup"
  /\ FlushTail(f)
  /\ IF f.stage = "ok"
     THEN /\ CleanupAdvance(cleanupCall, IterDelete(cleanupCall.iter, f.dateKey),
                            Delete(writeQueue, f.dateKey), appends \ {f})
          /\ query' = [query EXCEPT !.iter = IterDelete(@, f.dateKey)]
     ELSE /\ appends' = appends \ {f}
          /\ cleanupCall' = [cleanupCall EXCEPT !.pc = "idle", !.iter = <<>>,
                                                !.status = "error"]
          /\ UNCHANGED query
  /\ UNCHANGED <<logsDirectory, now, created, files, nfail, returned, thrown, logged,
                 duringFlush, calls>>

\* the write buffer alone: logEvent, the timers and the appends
\* the service driven directly by its callers, the bot around it at rest
NextBuffer ==
  \/ Tick /\ UNCHANGED bot
  \/ \E d \in LogInputs : LogEvent(d) /\ UNCHANGED bot
  \/ \E k \in Keys : TimerFire(k) /\ UNCHANGED bot
  \/ \E f \in appends : AppendOk(f) /\ UNCHANGED bot
  \/ \E f \in appends : AppendFail(f) /\ UNCHANGED bot
  \/ \E f \in appends : LogEventResume(f) /\ UNCHANGED bot
  \/ \E f \in appends : TimerFlushResume(f) /\ UNCHANGED bot

Next ==
  \/ NextBuffer
  \/ GetStatsSince /\ UNCHANGED bot
  \/ GetDailyStats(now) /\ UNCHANGED bot
  \/ \E f \in appends : QueryFlushResume(f) /\ UNCHANGED bot
  \/ QueryLoad /\ UNCHANGED bot
  \/ Cleanup /\ UNCHANGED bot
  \/ \E f \in appends : CleanupFlushResume(f) /\ UNCHANGED bot

Spec == Init /\ [][Next]_vars

\* the event loop runs every due timer and every I/O completion
Fairness ==
  /\ \A k \in Keys : WF_vars(TimerFire(k) /\ UNCHANGED bot)
  /\ WF_vars(\E f \in appends :
               (AppendOk(f) \/ AppendFail(f)) /\ UNCHANGED bot)
  /\ WF_vars(\E f \in appends :
               (LogEventResume(f) \/ TimerFlushResume(f)) /\ UNCHANGED bot)

FairSpec == Init /\ [][NextBuffer]_vars /\ Fairness

\* ---- the bot around the service: chat handlers and process signals ----
\* the analytics fields the handlers pass to logEvent
HandlerEvent(h) ==
  [user |-> "U1", channel |-> "C1", command |-> "help",
   errorStatus |-> h.errorStatus]
\* the finally block of handleDirectMessage logs only real interactions
LogsEvent_Always(name) == TRUE
LogsEvent(name) == name # "ignoredMessage"
Alive == proc.state # "exited"
BufferUnchanged ==
  UNCHANGED <<logsDirectory, now, created, writeQueue, writeTimeout, armed, files, appends,
              nfail, returned, thrown, logged, duringFlush, query,
              cleanupCall, calls>>

\* Bolt delivers an app_mention or a message event to its handler; a message
\* that is no direct message to the bot returns from the try block at once
Handle(name) ==
  /\ proc.state = "running"
  /\ handler.pc \in {"idle", "done"}
  /\ calls.log < MaxEvents
  /\ handler' = [IdleHandler EXCEPT
                   !.name = name,
                   !.pc = IF LogsEvent(name) THEN "try" ELSE "done",
                   !.outcome = IF LogsEvent(name) THEN "none" ELSE "returned"]
  /\ BufferUnchanged /\ UNCHANGED proc

\* the try block runs to its end: the reply is sent with say()
TryReplies ==
  /\ handler.pc = "try"
  /\ handler' = [handler EXCEPT !.pc = "finally", !.replied = TRUE]
  /\ BufferUnchanged /\ UNCHANGED proc

\* the try block throws (a Slack or Gemini call, or say() itself)
TryThrows ==
  /\ handler.pc = "try"
  /\ handler' = [handler EXCEPT !.pc = "catch", !.errorStatus = "true"]
  /\ BufferUnchanged /\ UNCHANGED proc

\* the catch block sends the apology with say()
CatchReplies ==
  /\ handler.pc = "catch"
  /\ handler' = [handler EXCEPT !.pc = "finally", !.replied = TRUE]
  /\ BufferUnchanged /\ UNCHANGED proc

\* say() throws inside the catch block: the error leaves through finally
CatchThrows ==
  /\ handler.pc = "catch"
  /\ handler' = [handler EXCEPT !.pc = "finally", !.rethrow = TRUE]
  /\ BufferUnchanged /\ UNCHANGED proc

\* the finally block calls analyticsService.logEvent and awaits it
FinallyLogEvent ==
  /\ handler.pc = "finally"
  /\ LogEvent(HandlerEvent(handler))
  /\ handler' = [handler EXCEPT !.pc = "await", !.ev = Len(created) + 1]
  /\ UNCHANGED proc

\* how the handler's promise settles once logEvent(...).catch(...) has
Settled_Uncaught(h, rejected) ==
  IF rejected THEN "threw logEvent's error"
  ELSE IF h.rethrow THEN "threw say's error" ELSE "returned"
Settled(h, rejected) ==
  IF h.rethrow THEN "threw say's error" ELSE "returned"

\* logEvent settled: a rejection is caught and logged, the handler ends
HandlerResume ==
  /\ handler.pc = "await"
  /\ handler.ev \in returned \cup thrown
  /\ handler' = [handler EXCEPT
                   !.pc = "done",
                   !.caught = handler.ev \in thrown,
                   !.outcome = Settled(handler, handler.ev \in thrown)]
  /\ BufferUnchanged /\ UNCHANGED proc

\* SIGINT or SIGTERM: the handler startBot registered awaits app.stop()
Signal(sig) ==
  /\ proc.state = "running"
  /\ proc' = [state |-> "stopping", signal |-> sig,
              buffered |-> {e.eventId : e \in
                              UNION {{Get(writeQueue, k)[i] :
                                        i \in DOMAIN Get(writeQueue, k)} :
                                     k \in Keys}}]
  /\ BufferUnchanged /\ UNCHANGED handler

\* app.stop() has resolved: process.exit(0)
Exit ==
  /\ proc.state = "stopping"
  /\ proc' = [proc EXCEPT !.state = "exited"]
  /\ BufferUnchanged /\ UNCHANGED handler

\* the handlers are the only callers of logEvent; no signal arrives
HandlerNext ==
  \/ Tick /\ UNCHANGED bot
  \/ \E k \in Keys : TimerFire(k) /\ UNCHANGED bot
  \/ \E f \in appends : AppendOk(f) /\ UNCHANGED bot
  \/ \E f \in appends : AppendFail(f) /\ UNCHANGED bot
  \/ \E f \in appends : LogEventResume(f) /\ UNCHANGED bot
  \/ \E f \in appends : TimerFlushResume(f) /\ UNCHANGED bot
  \/ \E name \in {"appMention", "directMessage", "ignoredMessage"} :
       Handle(name)
  \/ TryReplies
  \/ TryThrows
  \/ CatchReplies
  \/ CatchThrows
  \/ FinallyLogEvent
  \/ HandlerResume

HandlerSpec == Init /\ [][HandlerNext]_vars

\* the process receives a signal while events are logged and flushed;
\* nothing runs once it has exited
ShutdownNext ==
  \/ Alive /\ Tick /\ UNCHANGED bot
  \/ Alive /\ \E d \in LogInputs : LogEvent(d) /\ UNCHANGED bot
  \/ Alive /\ \E k \in Keys : TimerFire(k) /\ UNCHANGED bot
  \/ Alive /\ \E f \in appends : AppendOk(f) /\ UNCHANGED bot
  \/ Alive /\ \E f \in appends : AppendFail(f) /\ UNCHANGED bot
  \/ Alive /\ \E f \in appends : LogEventResume(f) /\ UNCHANGED bot
  \/ Alive /\ \E f \in appends : TimerFlushResume(f) /\ UNCHANGED bot
  \/ \E sig \in {"SIGINT", "SIGTERM"} : Signal(sig)
  \/ Exit

ShutdownSpec == Init /\ [][ShutdownNext]_vars

\* ---- getStats: the aggregation over the events getEventsInRange returned ----
\* a JavaScript truthiness test of an optional string field
Truthy(e, field) == field \in DOMAIN e /\ e[field] # ""
\* a quotient a / b, kept exact as the pair of its operands
Ratio(a, b) == [num |-> a, den |-> b]
\* new Set(events.map(e => e[field])).size
uniqueValues(events, field) ==
  Cardinality({events[i][field] : i \in DOMAIN events})
\* events.reduce((sum, e) => sum + e.responseTime, 0)
RECURSIVE totalResponseTime(_)
totalResponseTime(events) ==
  IF events = <<>> THEN 0
  ELSE totalResponseTime(SubSeq(events, 1, Len(events) - 1))
         + events[Len(events)].responseTime
\* events.reduce((sum, e) => sum + (e.tokensUsed?.total || 0), 0)
RECURSIVE totalTokens(_)
totalTokens(events) ==
  IF events = <<>> THEN 0
  ELSE totalTokens(SubSeq(events, 1, Len(events) - 1))
         + (IF "tokensUsed" \in DOMAIN events[Len(events)]
            THEN events[Len(events)].tokensUsed.total ELSE 0)
\* events.filter(e => e.errorStatus?.hasError).length
errorCount_Present(events) ==
  Len(SelectSeq(events, LAMBDA e : Member(e, "errorStatus") # undefined))
errorCount(events) ==
  Len(SelectSeq(events, LAMBDA e : Member(e, "errorStatus") = "true"))
\* commandUsage[key] = (commandUsage[key] || 0) + 1
Increment(commandUsage, key) ==
  [k \in DOMAIN commandUsage \cup {key} |->
     IF k = key
     THEN (IF key \in DOMAIN commandUsage THEN commandUsage[key] ELSE 0) + 1
     ELSE commandUsage[k]]
\* the body of events.forEach: the command's bucket, else the 'query' bucket
CountCommand_Both(commandUsage, e) ==
  LET c == IF Truthy(e, "command") THEN Increment(commandUsage, e.command)
           ELSE commandUsage
  IN IF Truthy(e, "query") THEN Increment(c, "query") ELSE c
CountCommand(commandUsage, e) ==
  IF Truthy(e, "command") THEN Increment(commandUsage, e.command)
  ELSE IF Truthy(e, "query") THEN Increment(commandUsage, "query")
  ELSE commandUsage
RECURSIVE commandUsageOf(_)
commandUsageOf(events) ==
  IF events = <<>> THEN [k \in {} |-> 0]
  ELSE CountCommand(commandUsageOf(SubSeq(events, 1, Len(events) - 1)),
                    events[Len(events)])
\* the AnalyticsStats computed when the result is not empty
ComputedStats(events) ==
  [totalInteractions |-> Len(events),
   totalUsers |-> uniqueValues(events, "user"),
   totalChannels |-> uniqueValues(events, "channel"),
   averageResponseTime |-> Ratio(totalResponseTime(events), Len(events)),
   totalTokensUsed |-> totalTokens(events),
   errorRate |-> Ratio(errorCount(events), Len(events)),
   commandUsage |-> commandUsageOf(events)]
\* what getStats returns for the events of its range
StatsOf_Unguarded(events) == ComputedStats(events)
StatsOf(events) ==
  IF Len(events) = 0
  THEN [totalInteractions |-> 0, totalUsers |-> 0, totalChannels |-> 0,
        averageResponseTime |-> Ratio(0, 1), totalTokensUsed |-> 0,
        errorRate |-> Ratio(0, 1), commandUsage |-> [k \in {} |-> 0]]
  ELSE ComputedStats(events)
\* the value of the getStats call that has returned
stats == StatsOf(query.result)

\* ---- getChannelStats and getDailyStats ----
\* getChannelStats: the range and the query it passes to getEventsInRange
ChannelStart(q) ==
  IF "startDate" \in DOMAIN q THEN NewDate(q.startDate)
  ELSE now - DefaultChannelDays * TicksPerDay
\* { ...query, channel: channelId }
WithChannel(q, channelId) ==
  [f \in DOMAIN q \cup {"channel"} |->
     IF f = "channel" THEN channelId ELSE q[f]]
\* getChannelStats(channelId, query)
GetChannelStats(channelId, q) ==
  GetEventsInRange(ChannelStart(q), StatsEnd(q), WithChannel(q, channelId))

\* the bucket an event is counted in, "" when it has no command and no query
CommandKey(e) ==
  IF Truthy(e, "command") THEN e.command
  ELSE IF Truthy(e, "query") THEN "query" ELSE ""
\* commandCounts[key] = (commandCounts[key] || 0) + 1, keys in insertion order
CountEntry(entries, key) ==
  IF key = "" THEN entries
  ELSE IF \E i \in DOMAIN entries : entries[i].command = key
  THEN [i \in DOMAIN entries |->
          IF entries[i].command = key
          THEN [entries[i] EXCEPT !.count = @ + 1] ELSE entries[i]]
  ELSE Append(entries, [command |-> key, count |-> 1])
\* Object.entries(commandCounts) after the forEach over the events
RECURSIVE commandCounts(_)
commandCounts(events) ==
  IF events = <<>> THEN <<>>
  ELSE CountEntry(commandCounts(SubSeq(events, 1, Len(events) - 1)),
                  CommandKey(events[Len(events)]))
\* .sort(([, a], [, b]) => b - a): stable, larger counts first
RECURSIVE InsertByCount(_, _)
InsertByCount(sorted, entry) ==
  IF sorted = <<>> THEN <<entry>>
  ELSE IF Head(sorted).count >= entry.count
       THEN <<Head(sorted)>> \o InsertByCount(Tail(sorted), entry)
       ELSE <<entry>> \o sorted
RECURSIVE sortByCount(_)
sortByCount_Unsorted(entries) == entries
sortByCount(entries) ==
  IF entries = <<>> THEN <<>>
  ELSE InsertByCount(sortByCount(SubSeq(entries, 1, Len(entries) - 1)),
                     entries[Len(entries)])
\* .slice(0, 5)
slice(entries, n) ==
  SubSeq(entries, 1, IF Len(entries) < n THEN Len(entries) ELSE n)
\* mostUsedCommands / topCommands
topCommandsOf(events) == slice(sortByCount(commandCounts(events)), TopCommands)

\* new Date(e.timestamp).getUTCHours()
getUTCHours(t) == ((t % TicksPerDay) * HoursPerDay) \div TicksPerDay
\* hour.toString().padStart(2, '0')
Digit == <<"0", "1", "2", "3", "4", "5", "6", "7", "8", "9">>
padStart2_None(hour) ==
  IF hour < 10 THEN Digit[hour + 1]
  ELSE Digit[(hour \div 10) + 1] \o Digit[(hour % 10) + 1]
padStart2(hour) == Digit[(hour \div 10) + 1] \o Digit[(hour % 10) + 1]
\* the 24 buckets set to 0, then hourlyDistribution[hour]++ for every event
RECURSIVE hourlyDistributionOf(_)
hourlyDistributionOf(events) ==
  IF events = <<>>
  THEN [key \in {padStart2(hour) : hour \in 0..(HoursPerDay - 1)} |-> 0]
  ELSE LET rest == hourlyDistributionOf(SubSeq(events, 1, Len(events) - 1))
           hour == padStart2(getUTCHours(events[Len(events)].timestamp))
       IN [rest EXCEPT ![hour] = @ + 1]

\* events.reduce((latest, e) => e.timestamp > latest ? e.timestamp : latest,
\*               events[0].timestamp)
RECURSIVE lastActivityOf(_)
lastActivityOf(events) ==
  IF Len(events) = 1 THEN events[1].timestamp
  ELSE LET latest == lastActivityOf(SubSeq(events, 1, Len(events) - 1))
           e == events[Len(events)]
       IN IF e.timestamp > latest THEN e.timestamp ELSE latest

\* what getChannelStats returns for the events of its range: null when empty
ChannelStatsOf(channelId, events) ==
  IF Len(events) = 0 THEN [null |-> TRUE]
  ELSE [null |-> FALSE,
        channelId |-> channelId,
        channelType |-> IF Truthy(events[1], "channelType")
                        THEN events[1].channelType ELSE "unknown",
        totalInteractions |-> Len(events),
        uniqueUsers |-> uniqueValues(events, "user"),
        averageResponseTime |-> Ratio(totalResponseTime(events), Len(events)),
        totalTokensUsed |-> totalTokens(events),
        errorRate |-> Ratio(errorCount(events), Len(events)),
        mostUsedCommands |-> topCommandsOf(events),
        lastActivity |-> lastActivityOf(events)]
\* what getDailyStats returns for the events of its day
DailyStatsOf(events) ==
  [totalInteractions |-> Len(events),
   uniqueUsers |-> uniqueValues(events, "user"),
   uniqueChannels |-> uniqueValues(events, "channel"),
   averageResponseTime |->
     IF Len(events) > 0 THEN Ratio(totalResponseTime(events), Len(events))
     ELSE Ratio(0, 1),
   totalTokensUsed |-> totalTokens(events),
   errorCount |-> errorCount(events),
   hourlyDistribution |-> hourlyDistributionOf(events),
   topCommands |-> topCommandsOf(events)]
\* how the call settles once getEventsInRange has returned: getStats builds
\* timeRange with toISOString, getChannelStats formats no date
Settles(channelCall, startDate, endDate) ==
  IF ~channelCall /\ (toISOStringThrows(startDate) \/ toISOStringThrows(endDate))
  THEN "throws" ELSE "returns"
\* the values of the call that has returned
channelStats == ChannelStatsOf(query.query.channel, query.result)
dailyStats == DailyStatsOf(query.result)

\* ---- a service constructed over a log directory earlier runs have filled ----
\* the eventData of the records already on disk
StoredInputs ==
  {[user |-> "U1", channel |-> c, command |-> "help", responseTime |-> 1,
    errorStatus |-> "absent"] : c \in {"C1", "C2"}}
\* the queries the caller passes: a range, alone or with a channel filter
QueryChoices(s, e) ==
  {[hasError |-> "unset", startDate |-> s, endDate |-> e],
   [hasError |-> "unset", startDate |-> s, endDate |-> e, channel |-> "C1"]}
DayTimes(k) == {t \in Times : KeyOf(t) = k}
\* the partitions of date k: up to MaxPartition records stamped on that date
Partitions(k) ==
  UNION {
    {[i \in 1..n |-> MakeEvent(c[i][1], k * MaxPartition + i, c[i][2])] :
       c \in [1..n -> StoredInputs \X DayTimes(k)]} : n \in 0..MaxPartition}

QueryInit ==
  /\ now = MaxTime
  /\ InitFresh
  /\ files \in [Keys -> UNION {Partitions(k) : k \in Keys}]
  /\ \A k \in Keys : files[k] \in Partitions(k)
  /\ appends = {}
  /\ nfail = 0
  /\ thrown = {}
  /\ logged = [k \in Keys |-> 0]
  /\ duringFlush = {}
  /\ query = IdleQuery
  /\ cleanupCall = IdleCleanup
  /\ calls = [log |-> 0, other |-> 0]
  /\ handler = IdleHandler
  /\ proc = Started
  /\ logsDirectory = "present"

QueryNext ==
  \/ \E s \in Times, e \in Times :
       \E q \in QueryChoices(s, e) : GetStats(q) /\ UNCHANGED bot
  \/ QueryLoad /\ UNCHANGED bot

QuerySpec == QueryInit /\ [][QueryNext]_vars

\* ---- a log directory where files are missing or hold a damaged line ----
CorruptLine == [text |-> "{\"eventId\":"]
LoadLines(k) ==
  {MakeEvent(CHOOSE d \in LogInputs : TRUE, 1, t) : t \in DayTimes(k)}
    \cup {CorruptLine}
\* what is on disk: every date has no file, or a file of up to MaxPartition lines
Directories ==
  UNION {[D -> UNION {[1..n -> UNION {LoadLines(k) : k \in Keys}] :
                        n \in 0..MaxPartition}] : D \in SUBSET Keys}

LoadInit ==
  /\ now = MaxTime
  /\ InitFresh
  /\ files \in Directories
  /\ \A k \in DOMAIN files : \A i \in DOMAIN files[k] : files[k][i] \in LoadLines(k)
  /\ appends = {}
  /\ nfail = 0
  /\ thrown = {}
  /\ logged = [k \in Keys |-> 0]
  /\ duringFlush = {}
  /\ query = IdleQuery
  /\ cleanupCall = IdleCleanup
  /\ calls = [log |-> 0, other |-> 0]
  /\ handler = IdleHandler
  /\ proc = Started
  /\ logsDirectory = "present"

LoadNext ==
  \/ \E s \in Times, e \in Times :
       GetStats([hasError |-> "unset", startDate |-> s, endDate |-> e])
         /\ UNCHANGED bot
  \/ QueryLoad /\ UNCHANGED bot

LoadSpec == LoadInit /\ [][LoadNext]_vars

\* ---- getChannelStats over the log directory of earlier runs ----
ChannelNext ==
  \/ \E s \in Times, e \in Times : \E channelId \in {"C1", "C3"} :
       GetChannelStats(channelId,
                       [hasError |-> "unset", startDate |-> s, endDate |-> e])
         /\ UNCHANGED bot
  \/ QueryLoad /\ UNCHANGED bot

ChannelSpec == QueryInit /\ [][ChannelNext]_vars

\* ---- getStats and getChannelStats given date strings of any kind ----
DateStrings == Times \cup {MalformedDate}
DateNext ==
  \/ \E s \in DateStrings, e \in DateStrings :
       GetStats([hasError |-> "unset", startDate |-> s, endDate |-> e])
         /\ UNCHANGED bot
  \/ \E s \in DateStrings, e \in DateStrings :
       GetChannelStats("C1", [hasError |-> "unset", startDate |-> s,
                              endDate |-> e])
         /\ UNCHANGED bot
  \/ QueryLoad /\ UNCHANGED bot

DateSpec == QueryInit /\ [][DateNext]_vars

\* ---- the daily report over one day of commands ----
MaxScan == 7
CommandNames ==
  <<"summarize", "analyze", "action-items", "decisions", "help", "stats">>
Largest(cs) == IF cs = <<>> THEN 0 ELSE CHOOSE m \in 1..Len(CommandNames) :
                 (\E i \in DOMAIN cs : cs[i] = m) /\ \A i \in DOMAIN cs : cs[i] <= m
\* the command sequences of length n, up to renaming of the commands: a
\* command not used before is the next one of CommandNames
RECURSIVE Scans(_)
Scans(n) ==
  IF n = 0 THEN {<<>>}
  ELSE UNION {{Append(cs, c) :
                 c \in {m \in 1..Len(CommandNames) : m <= Largest(cs) + 1}} :
              cs \in Scans(n - 1)}
\* the day's partition: line i holds command cs[i]; when late, the first
\* half of the lines was stamped after the second half
DayOfCommands(cs, late) ==
  [i \in 1..Len(cs) |->
     MakeEvent([user |-> "U1", channel |-> "C1",
                command |-> CommandNames[cs[i]],
                responseTime |-> 1, errorStatus |-> "absent"],
               i,
               IF late /\ 2 * i <= Len(cs) THEN TicksPerDay - 1 ELSE 0)]

DailyInit ==
  /\ now = MaxTime
  /\ InitFresh
  /\ \E n \in 0..MaxScan : \E cs \in Scans(n) : \E late \in BOOLEAN :
       files = [k \in Keys |-> IF k = 0 THEN DayOfCommands(cs, late) ELSE <<>>]
  /\ appends = {}
  /\ nfail = 0
  /\ thrown = {}
  /\ logged = [k \in Keys |-> 0]
  /\ duringFlush = {}
  /\ query = IdleQuery
  /\ cleanupCall = IdleCleanup
  /\ calls = [log |-> 0, other |-> 0]
  /\ handler = IdleHandler
  /\ proc = Started
  /\ logsDirectory = "present"

DailyNext ==
  \/ \E date \in Times : GetDailyStats(date) /\ UNCHANGED bot
  \/ GetChannelStats("C1", [hasError |-> "unset", startDate |-> 0,
                            endDate |-> TicksPerDay - 1])
       /\ UNCHANGED bot
  \/ QueryLoad /\ UNCHANGED bot

DailySpec == DailyInit /\ [][DailyNext]_vars

\* ---- getStats over one partition of events of every shape ----
StatsInputs ==
  {[user |-> "U1", channel |-> "C1", command |-> "help",
    responseTime |-> 1, errorStatus |-> "absent"],
   [user |-> "U2", channel |-> "C1", query |-> "hi",
    responseTime |-> 2, tokensUsed |-> [total |-> 3],
    errorStatus |-> "false"],
   [user |-> "U1", channel |-> "C2", query |-> "hi",
    responseTime |-> 0, tokensUsed |-> [total |-> 1],
    errorStatus |-> "true"],
   [user |-> "U2", channel |-> "C2",
    responseTime |-> 1, errorStatus |-> "true"],
   [user |-> "U1", channel |-> "C1", command |-> "stats", query |-> "hi",
    responseTime |-> 2, tokensUsed |-> [total |-> 0],
    errorStatus |-> "false"]}
StatsQueries ==
  {[hasError |-> "unset", startDate |-> 0, endDate |-> MaxTime],
   [hasError |-> "unset", startDate |-> 0, endDate |-> 0, channel |-> "C2"],
   [hasError |-> "true", startDate |-> 0, endDate |-> MaxTime],
   [hasError |-> "false", startDate |-> 0, endDate |-> MaxTime]}
StatsPartitions ==
  UNION {[1..n -> StatsInputs] : n \in 0..MaxPartition}

StatsInit ==
  /\ now = MaxTime
  /\ InitFresh
  /\ \E p \in StatsPartitions :
       files = [k \in Keys |->
                  IF k = 0 THEN [i \in 1..Len(p) |-> MakeEvent(p[i], i, 0)]
                  ELSE <<>>]
  /\ appends = {}
  /\ nfail = 0
  /\ thrown = {}
  /\ logged = [k \in Keys |-> 0]
  /\ duringFlush = {}
  /\ query = IdleQuery
  /\ cleanupCall = IdleCleanup
  /\ calls = [log |-> 0, other |-> 0]
  /\ handler = IdleHandler
  /\ proc = Started
  /\ logsDirectory = "present"

StatsNext ==
  \/ \E q \in StatsQueries : GetStats(q) /\ UNCHANGED bot
  \/ QueryLoad /\ UNCHANGED bot

StatsSpec == StatsInit /\ [][StatsNext]_vars

\* ---- vocabulary of the properties ----
EventIds == 1..(batchSize - 1 + MaxEvents)
InSeq(e, evs) == \E i \in DOMAIN evs : evs[i].eventId = e.eventId
Count(e, evs) == Cardinality({i \in DOMAIN evs : evs[i].eventId = e.eventId})
Buffered(e) == InSeq(e, Get(writeQueue, KeyOf(e.timestamp)))
Persisted(e) == InSeq(e, files[KeyOf(e.timestamp)])
BeingAppended(e) == \E f \in appends : f.stage = "io" /\ InSeq(e, f.events)
Created == {created[i] : i \in DOMAIN created}
Last(evs) == evs[Len(evs)]

\* C1: a record pushed while a flush of its date-key awaits its append is
\* never lost: it stays queued, or is being appended, or is in its partition.
C1_NoLossDuringFlush ==
  \A e \in Created :
    e.eventId \in duringFlush => Buffered(e) \/ BeingAppended(e) \/ Persisted(e)

\* C2: while every append succeeds, no record is written to its partition
\* more than once.
C2_NoDuplicateWrite ==
  nfail = 0 => \A k \in Keys : \A e \in Created : Count(e, files[k]) <= 1

\* C3: for each date-key at most one flushEvents invocation is between the
\* start of its append and its resumption.
C3_OneFlushInFlight ==
  \A k \in Keys : Cardinality(InFlight(k)) <= 1

\* C4: a query that returns has computed its result over every in-range
\* event whose logEvent call had returned when the query was invoked.
C4_QuerySeesPriorEvents ==
  query.status = "ok" =>
    \A e \in Created :
      (e.eventId \in query.prior
         /\ Matches(e, query.startDate, query.endDate, query.query))
      => InSeq(e, query.result)

\* C5: when cleanup returns after only successful appends, every event
\* enqueued before the call (each key below the batch size) is exactly once
\* in the partition of its own date.
BelowBatchSize(ids) ==
  \A k \in Keys :
    Cardinality({e \in Created : e.eventId \in ids /\ KeyOf(e.timestamp) = k})
      < batchSize
C5_CleanupPersistsOnce ==
  [][(cleanupCall.pc = "flush" /\ cleanupCall'.pc = "idle"
        /\ cleanupCall'.status = "ok" /\ nfail' = 0
        /\ BelowBatchSize(cleanupCall.prior))
     => \A e \in Created :
          e.eventId \in cleanupCall.prior
          => Count(e, files'[KeyOf(e.timestamp)]) = 1]_vars

\* C6: when the logEvent call that filled the batch returns, the partition
\* holds exactly the 10 records of the batch and the key's queue is gone.
C6_BatchFlushedOnReturn ==
  [][\A f \in appends :
       (f.owner = "log" /\ f.stage = "ok" /\ f \notin appends'
          /\ Len(f.events) = batchSize)
       => /\ files'[f.dateKey] = f.events
          /\ Get(writeQueue', f.dateKey) = <<>>]_vars

SurfacedNext(f) ==
  CASE f.owner = "log" -> f.ev \in thrown'
    [] f.owner = "timer" -> logged'[f.dateKey] = logged[f.dateKey] + 1
    [] f.owner = "query" -> query'.status = "error"
    [] f.owner = "cleanup" -> cleanupCall'.status = "error"
C8_FailedBatchKept ==
  [][\A f \in appends :
       (f.stage = "err" /\ f \notin appends')
       => /\ \A i \in DOMAIN f.events :
               InSeq(f.events[i], Get(writeQueue', f.dateKey))
          /\ SurfacedNext(f)]_vars

\* C9: after a timer flush of a date-key has failed, the records it left in
\* the queue are persisted without any further logEvent call.
C9_FailedFlushRetried ==
  \A k \in Keys : \A i \in EventIds : \A n \in 0..MaxEvents :
    (/\ logged[k] > 0 /\ writeTimeout[k] = "fired" /\ InFlight(k) = {}
     /\ i \in Ids(Get(writeQueue, k))
     /\ calls.log = n)
    ~> (i \in Ids(files[k]) \/ calls.log > n)

\* C10: for start <= end the range query returns exactly the persisted
\* records stamped within [start, end] that satisfy the filters, whatever
\* the times of day of start and end.
Stored == UNION {{files[k][i] : i \in DOMAIN files[k]} : k \in Keys}
C10_RangeComplete ==
  (query.status = "ok" /\ query.startDate <= query.endDate) =>
    /\ \A e \in Stored :
         Matches(e, query.startDate, query.endDate, query.query)
         => InSeq(e, query.result)
    /\ \A i \in DOMAIN query.result :
         /\ query.result[i] \in Stored
         /\ Matches(query.result[i], query.startDate, query.endDate, query.query)

\* C11: the range filter is inclusive at both ends: a stored event stamped
\* at startDate or at endDate (and passing the other filters) is returned,
\* one stamped an instant before startDate or after endDate is not.
PassesFilters(e) == Matches(e, e.timestamp, e.timestamp, query.query)
C11_InclusiveBounds ==
  (query.status = "ok" /\ query.startDate <= query.endDate) =>
    \A e \in Stored :
      PassesFilters(e) =>
        /\ e.timestamp \in {query.startDate, query.endDate}
             => InSeq(e, query.result)
        /\ e.timestamp \in {query.startDate - 1, query.endDate + 1}
             => ~InSeq(e, query.result)

\* C12: the returned sequence is in non-decreasing timestamp order, whatever
\* the order of the lines inside each partition.
C12_SortedResult ==
  query.status = "ok" =>
    \A i \in DOMAIN query.result : \A j \in DOMAIN query.result :
      i < j => query.result[i].timestamp <= query.result[j].timestamp
C12_Witness ==
  /\ query.status = "ok"
  /\ Len(files[0]) = 2
  /\ files[0][1].timestamp > files[0][2].timestamp
  /\ Len(query.result) >= 2

\* C13: partitions are append-only: every step leaves the earlier content
\* of every partition as a prefix of its new content.
IsPrefix(a, b) == Len(a) <= Len(b) /\ SubSeq(b, 1, Len(a)) = a
C13_AppendOnly ==
  [][\A k \in Keys : IsPrefix(files[k], files'[k])]_vars
C13_Witness ==
  \E k \in Keys : Len(files[k]) > batchSize - 1 + MaxEvents

\* C14: every record in the partition of date D is stamped on date D.
C14_PartitionByOwnDate ==
  \A k \in Keys : \A i \in DOMAIN files[k] :
    KeyOf(files[k][i].timestamp) = k
C14_Witness ==
  /\ Len(writeQueue) = 2
  /\ \E f \in appends : f.stage = "ok" /\ files[f.dateKey] # <<>>

\* C17: at the step where cleanup returns, no flush timer is armed or
\* recorded and no date-key has a queue.
CleanupReturns ==
  /\ cleanupCall'.pc = "idle" /\ cleanupCall'.status = "ok"
  /\ cleanupCall.pc = "flush" \/ cleanupCall'.prior # cleanupCall.prior
                              \/ cleanupCall.status # "ok"
  /\ cleanupCall' # cleanupCall
C17_CleanupLeavesNothingArmed ==
  [][CleanupReturns =>
       /\ writeQueue' = <<>>
       /\ \A k \in Keys : writeTimeout'[k] = "none" /\ armed'[k] = 0]_vars
C17_Witness ==
  /\ cleanupCall.status = "ok" /\ cleanupCall.pc = "idle"
  /\ writeQueue = <<>>
  /\ \A k \in Keys : writeTimeout[k] = "none" /\ armed[k] = 0
  /\ \E e \in Created : e.eventId \notin cleanupCall.prior
  /\ \E e \in Created : e.eventId \in cleanupCall.prior /\ Persisted(e)

\* ---- vocabulary of the getStats properties ----
RECURSIVE SumOver(_, _)
SumOver(S, f) ==
  IF S = {} THEN 0
  ELSE LET x == CHOOSE y \in S : TRUE IN f[x] + SumOver(S \ {x}, f)
Indices(P(_)) == {i \in DOMAIN query.result : P(query.result[i])}
SameQuotient(r, a, b) == r.den # 0 /\ b # 0 /\ r.num * b = a * r.den
IsZero(r) == r.den # 0 /\ r.num = 0
HasCommand(e) == "command" \in DOMAIN e
HasQuery(e) == "query" \in DOMAIN e
BucketOf(e) ==
  IF HasCommand(e) THEN e.command ELSE IF HasQuery(e) THEN "query" ELSE "none"
BucketCount(b) ==
  IF b \in DOMAIN stats.commandUsage THEN stats.commandUsage[b] ELSE 0

\* C18: over a non-empty result getStats returns the number of events, the
\* numbers of distinct users and channels, the mean response time, the sum
\* of tokensUsed.total (0 where absent) and the share of events in error.
C18_StatsAggregates ==
  (query.status = "ok" /\ Len(query.result) > 0) =>
    LET n == Len(query.result)
        all == DOMAIN query.result
    IN /\ stats.totalInteractions = n
       /\ stats.totalUsers =
            Cardinality({u \in {"U1", "U2"} :
                           Indices(LAMBDA e : e.user = u) # {}})
       /\ stats.totalChannels =
            Cardinality({c \in {"C1", "C2"} :
                           Indices(LAMBDA e : e.channel = c) # {}})
       /\ SameQuotient(stats.averageResponseTime,
                       SumOver(all, [i \in all |->
                                       query.result[i].responseTime]), n)
       /\ stats.totalTokensUsed =
            SumOver(Indices(LAMBDA e : "tokensUsed" \in DOMAIN e),
                    [i \in all |->
                       IF "tokensUsed" \in DOMAIN query.result[i]
                       THEN query.result[i].tokensUsed.total ELSE 0])
       /\ SameQuotient(stats.errorRate,
                       Cardinality(Indices(LAMBDA e : e.errorStatus = "true")),
                       n)
C18_Witness ==
  /\ query.status = "ok" /\ Len(query.result) >= 2
  /\ Indices(LAMBDA e : "tokensUsed" \notin DOMAIN e) # {}
  /\ Indices(LAMBDA e : e.errorStatus = "true") # {}
  /\ Indices(LAMBDA e : e.errorStatus = "false") # {}
  /\ stats.totalTokensUsed > 0

\* C19: over an empty result getStats returns 0 for every numeric field,
\* the two quotients included (no division by zero), and no bucket.
C19_EmptyStatsAreZero ==
  (query.status = "ok" /\ Len(query.result) = 0) =>
    /\ stats.totalInteractions = 0
    /\ stats.totalUsers = 0
    /\ stats.totalChannels = 0
    /\ IsZero(stats.averageResponseTime)
    /\ stats.totalTokensUsed = 0
    /\ IsZero(stats.errorRate)
    /\ DOMAIN stats.commandUsage = {}
C19_Witness ==
  /\ query.status = "ok" /\ query.result = <<>>
  /\ files[0] # <<>>
  /\ stats.totalInteractions = 0

\* C20: each event is counted in the bucket of its command, else in the
\* 'query' bucket if it has query text, else in none; the bucket counts
\* sum to the number of events that have a command or a query.
C20_OneBucketPerEvent ==
  query.status = "ok" =>
    /\ \A b \in {"help", "stats", "query", "none"} :
         BucketCount(b) =
           IF b = "none" THEN 0
           ELSE Cardinality(Indices(LAMBDA e : BucketOf(e) = b))
    /\ DOMAIN stats.commandUsage \subseteq {"help", "stats", "query"}
    /\ SumOver(DOMAIN stats.commandUsage, stats.commandUsage) =
         Cardinality(Indices(LAMBDA e : HasCommand(e) \/ HasQuery(e)))
C20_Witness ==
  /\ query.status = "ok"
  /\ Indices(LAMBDA e : HasCommand(e) /\ HasQuery(e)) # {}
  /\ Indices(LAMBDA e : ~HasCommand(e) /\ HasQuery(e)) # {}
  /\ BucketCount("query") = 1

\* ---- vocabulary of the handler and shutdown properties ----
LogEventCalled == handler.pc = "await" \/ (handler.pc = "done" /\ handler.ev # 0)
LogFailureContained ==
  /\ handler.outcome # "threw logEvent's error"
  /\ (handler.pc = "done" /\ handler.ev \in thrown) => handler.caught

\* C15 as stated: a failure of logEvent never makes the handler throw, the
\* handler catches and logs it, and the reply has been sent by the time
\* logEvent is called.
C15_ReplySentBeforeLogEvent ==
  /\ LogFailureContained
  /\ LogEventCalled => handler.replied

\* C15: a failure of logEvent never makes the handler throw, the handler
\* catches and logs it, and by the time logEvent is called every attempt to
\* send the reply has ended: the reply or the apology has been sent, or
\* say() failed in the catch block.
C15_LogFailureContained ==
  /\ LogFailureContained
  /\ LogEventCalled => handler.replied \/ handler.rethrow
C15_Witness ==
  /\ handler.pc = "done" /\ handler.replied
  /\ handler.ev \in thrown /\ handler.caught
  /\ handler.outcome = "returned"

\* C16: when the process has exited after SIGINT or SIGTERM, cleanup was
\* invoked and every event buffered at the signal is in its partition.
C16_ShutdownPersistsBuffer ==
  proc.state = "exited" =>
    /\ cleanupCall.status # "none" \/ cleanupCall.pc # "idle"
    /\ \A e \in Created : e.eventId \in proc.buffered => Persisted(e)

\* ---- vocabulary of the timer properties ----
SizeFlushing(k) ==
  {f \in appends : f.dateKey = k /\ f.owner = "log" /\ f.stage = "io"}
SameBatch(f, g) == \E i \in DOMAIN f.events : InSeq(f.events[i], g.events)
FlushCompletes(f) == f \in appends /\ f.stage = "ok" /\ f \notin appends'
EmptyKey(k) == ~Has(writeQueue, k) /\ writeTimeout[k] = "none" /\ armed[k] = 0
LogEventStep == Len(created') = Len(created) + 1

\* C28: while a size-triggered append of a date-key is in progress, the
\* key's timer is cancelled: no timer flush of events of that batch starts.
C28_TimerCancelledBySizeFlush ==
  [][\A k \in Keys : \A f \in SizeFlushing(k) :
       \A g \in appends' \ appends :
         ~(g.owner = "timer" /\ g.dateKey = k /\ SameBatch(f, g))]_vars

\* C29: a date-key whose queue is non-empty and below the batch size, with
\* no flush of the key in flight, has a flush timer armed and pending.
C29_AccumulatingHasTimer ==
  \A k \in Keys :
    (/\ Get(writeQueue, k) # <<>>
     /\ Len(Get(writeQueue, k)) < batchSize
     /\ InFlight(k) = {})
    => writeTimeout[k] = "pending" /\ armed[k] > 0

\* C30: the step that completes a successful flush of a date-key leaves
\* the key with no queue and no timer, and a logEvent on a key in that
\* state starts a queue of length 1 and arms a new timer.
C30_FlushReturnsToEmpty ==
  [][/\ \A f \in appends :
          FlushCompletes(f) =>
            /\ ~Has(writeQueue', f.dateKey)
            /\ writeTimeout'[f.dateKey] = "none"
            /\ armed'[f.dateKey] = 0
     /\ (LogEventStep /\ EmptyKey(KeyOf(now))) =>
          /\ Len(Get(writeQueue', KeyOf(now))) = 1
          /\ writeTimeout'[KeyOf(now)] = "pending"
          /\ armed'[KeyOf(now)] = 1]_vars
C30_Witness ==
  \E k \in Keys :
    /\ files[k] # <<>> /\ InFlight(k) = {}
    /\ Len(Get(writeQueue, k)) = 1
    /\ ~InSeq(Get(writeQueue, k)[1], files[k])
    /\ writeTimeout[k] = "pending" /\ armed[k] = 1

\* C27: hasError = false keeps the events without errorStatus or with
\* hasError false and drops those with hasError true; hasError = true keeps
\* only those with hasError true; hasError unspecified drops none.
PassesOtherFilters(e) ==
  Matches(e, query.startDate, query.endDate,
          [query.query EXCEPT !.hasError = "unset"])
C27_HasErrorFilter ==
  query.status = "ok" =>
    \A i \in DOMAIN files[0] :
      LET e == files[0][i]
      IN PassesOtherFilters(e) =>
           (InSeq(e, query.result) <=>
              CASE query.query.hasError = "false" ->
                     e.errorStatus \in {"absent", "false"}
                [] query.query.hasError = "true" -> e.errorStatus = "true"
                [] OTHER -> TRUE)
C27_Witness ==
  /\ query.status = "ok" /\ query.query.hasError = "false"
  /\ \E i \in DOMAIN query.result : query.result[i].errorStatus = "absent"
  /\ \E i \in DOMAIN files[0] :
       files[0][i].errorStatus = "true" /\ ~InSeq(files[0][i], query.result)

\* ---- vocabulary of the loading properties ----
QueryEnded == query.pc = "idle" /\ query.status # "none"
Damaged(k) == k \in DOMAIN files /\ \E i \in DOMAIN files[k] : ~Parses(files[k][i])
DatesOfRange == {k \in Keys : KeyOf(query.startDate) <= k /\ k <= KeyOf(query.endDate)}

\* C24: a date without a file loads as an empty sequence: when no file is
\* damaged, a range query over dates without files succeeds and returns
\* only records of the files that exist, those of its first date included.
C24_MissingPartitionIsEmpty ==
  (QueryEnded /\ \A k \in Keys : ~Damaged(k)) =>
    /\ query.status = "ok"
    /\ \A i \in DOMAIN query.result :
         \E k \in DOMAIN files : \E j \in DOMAIN files[k] :
           files[k][j] = query.result[i]
    /\ \A k \in DOMAIN files : \A j \in DOMAIN files[k] :
         (/\ k = KeyOf(query.startDate)
          /\ query.startDate <= files[k][j].timestamp
          /\ files[k][j].timestamp <= query.endDate)
         => \E i \in DOMAIN query.result : query.result[i] = files[k][j]
C24_Witness ==
  /\ QueryEnded /\ query.status = "ok"
  /\ query.result # <<>>
  /\ \E k \in DatesOfRange : k \notin DOMAIN files

\* C25: a range query fails, with no partial result, exactly when a line
\* of a partition of a date inside the requested range does not parse.
C25_DamagedLineAbortsQuery ==
  (QueryEnded /\ query.startDate <= query.endDate) =>
    /\ query.status = "error" <=> \E k \in DatesOfRange : Damaged(k)
    /\ query.status = "error" => query.result = <<>>

\* ---- vocabulary of the report properties ----
IsChannelCall == "channel" \in DOMAIN query.query
TopList ==
  IF IsChannelCall THEN channelStats.mostUsedCommands ELSE dailyStats.topCommands
Buckets == {BucketOf(query.result[i]) : i \in DOMAIN query.result} \ {"none"}
CountOf(c) == Cardinality(Indices(LAMBDA e : BucketOf(e) = c))
FirstSeen(c) ==
  CHOOSE i \in DOMAIN query.result :
    /\ BucketOf(query.result[i]) = c
    /\ \A j \in 1..(i - 1) : BucketOf(query.result[j]) # c
Listed == {TopList[i].command : i \in DOMAIN TopList}

\* C21: mostUsedCommands and topCommands hold at most 5 entries, each a
\* command with its count, in non-increasing count order, equal counts in
\* first-seen order of the timestamp-ordered scan; no omitted command has
\* a higher count than an included one.
C21_TopFiveCommands ==
  (query.status = "ok" /\ (IsChannelCall => query.result # <<>>)) =>
    /\ Len(TopList) <= 5
    /\ Len(TopList) = 5 \/ Listed = Buckets
    /\ \A i \in DOMAIN TopList :
         /\ TopList[i].command \in Buckets
         /\ TopList[i].count = CountOf(TopList[i].command)
    /\ \A i \in DOMAIN TopList : \A j \in DOMAIN TopList :
         i < j =>
           /\ TopList[i].command # TopList[j].command
           /\ TopList[i].count >= TopList[j].count
           /\ TopList[i].count = TopList[j].count =>
                FirstSeen(TopList[i].command) < FirstSeen(TopList[j].command)
    /\ \A c \in Buckets \ Listed :
         \A i \in DOMAIN TopList : TopList[i].count >= CountOf(c)
C21_Witness ==
  /\ query.status = "ok" /\ ~IsChannelCall
  /\ Len(TopList) = 5 /\ Buckets \ Listed # {}
  /\ TopList[4].count = TopList[5].count
  /\ TopList[1].count > TopList[2].count
  /\ FirstSeen(TopList[1].command) > FirstSeen(TopList[2].command)
  /\ files[0][1].timestamp > files[0][Len(files[0])].timestamp

\* C22: getDailyStats returns hourlyDistribution with exactly the keys "00"
\* to "23"; each bucket is the number of the day's records stamped in that
\* UTC hour, the buckets sum to totalInteractions, and all are 0 for a day
\* without records.
HourKeys ==
  <<"00", "01", "02", "03", "04", "05", "06", "07", "08", "09", "10", "11",
    "12", "13", "14", "15", "16", "17", "18", "19", "20", "21", "22", "23">>
DayRecords == files[KeyOf(query.startDate)]
C22_HourlyDistribution ==
  (query.status = "ok" /\ ~IsChannelCall) =>
    LET buckets == dailyStats.hourlyDistribution
    IN /\ DOMAIN buckets = {HourKeys[h] : h \in 1..24}
       /\ \A h \in 1..24 :
            buckets[HourKeys[h]] =
              Cardinality({i \in DOMAIN DayRecords :
                             getUTCHours(DayRecords[i].timestamp) = h - 1})
       /\ SumOver(DOMAIN buckets, buckets) = dailyStats.totalInteractions
       /\ DayRecords = <<>> => \A h \in 1..24 : buckets[HourKeys[h]] = 0
C22_Witness ==
  /\ query.status = "ok" /\ ~IsChannelCall
  /\ dailyStats.totalInteractions >= 2
  /\ dailyStats.hourlyDistribution["00"] > 0
  /\ \E h \in 2..24 : dailyStats.hourlyDistribution[HourKeys[h]] > 0

\* C23: getChannelStats returns the no-data sentinel exactly when no stored
\* record of the range belongs to the channel; otherwise every record it
\* aggregates is of that channel and lastActivity is their latest timestamp.
InRangeOfChannel ==
  {e \in Stored : /\ e.channel = query.query.channel
                  /\ query.startDate <= e.timestamp
                  /\ e.timestamp <= query.endDate}
C23_ChannelStatsSentinel ==
  (query.status = "ok" /\ IsChannelCall) =>
    /\ channelStats.null <=> InRangeOfChannel = {}
    /\ ~channelStats.null =>
         /\ \A i \in DOMAIN query.result :
              query.result[i].channel = channelStats.channelId
         /\ \E i \in DOMAIN query.result :
              query.result[i].timestamp = channelStats.lastActivity
         /\ \A i \in DOMAIN query.result :
              query.result[i].timestamp <= channelStats.lastActivity

\* C26: getStats and getChannelStats given a startDate or endDate string
\* that is no date fail with an error; they return no normal result.
GivenMalformedDate ==
  query.query.startDate = MalformedDate \/ query.query.endDate = MalformedDate
C26_MalformedDateFails ==
  (QueryEnded /\ GivenMalformedDate) =>
    \/ query.status = "error"
    \/ Settles(IsChannelCall, query.startDate, query.endDate) = "throws"

\* C31: when the append of one date-key fails during cleanup, cleanup still
\* flushes every other date-key: at the step where the failed flush resumes,
\* no event enqueued before the cleanup call is left in the queue of another
\* date-key with no flush in flight and no timer to flush it.
Stranded(k) ==
  /\ \E e \in Created :
       e.eventId \in cleanupCall.prior /\ InSeq(e, Get(writeQueue', k))
  /\ {f \in appends' : f.dateKey = k} = {}
  /\ armed'[k] = 0
C31_CleanupFlushesOtherKeys ==
  [][\A f \in appends :
       (f.owner = "cleanup" /\ f.stage = "err" /\ f \notin appends')
       => \A k \in Keys \ {f.dateKey} : ~Stranded(k)]_vars

\* ---- the stats command (handlers/commands.ts) ----
\* new AnalyticsService(): an instance of its own, with empty Maps
NewAnalyticsService ==
  [writeQueue |-> <<>>, writeTimeout |-> [k \in Keys |-> "none"]]
\* args[0] ? parseInt(args[0], 10) : 7, for the day counts the clock allows
StatsDays == {1}

\* the handler of the stats command: getStats({ startDate }) on a new
\* instance, whose flush barrier iterates over that instance's own queue
StatsCommand(days) ==
  LET analyticsService == NewAnalyticsService
      startDate == now - days * TicksPerDay
      q == [hasError |-> "unset", startDate |-> startDate]
  IN /\ query.pc = "idle"
     /\ calls.other < MaxCalls
     /\ calls' = [calls EXCEPT !.other = @ + 1]
     /\ QueryAdvance([IdleQuery EXCEPT !.startDate = StatsStart(q),
                                       !.endDate = StatsEnd(q), !.query = q,
                                       !.prior = returned],
                     MapKeys(analyticsService.writeQueue),
                     analyticsService.writeQueue, appends)
     /\ UNCHANGED <<logsDirectory, now, created, writeQueue, writeTimeout, armed, files,
                    nfail, returned, thrown, logged, duringFlush, cleanupCall>>

\* the handlers log into their instance while the stats command is used
CommandNext ==
  \/ NextBuffer
  \/ \E days \in StatsDays : StatsCommand(days) /\ UNCHANGED bot
  \/ QueryLoad /\ UNCHANGED bot

CommandSpec == Init /\ [][CommandNext]_vars

\* C32: the statistics the stats command reports are computed over every
\* in-range event whose logEvent call had returned before the command ran,
\* those still in the write buffer of the handlers' instance included: the
\* events getStats aggregates contain each of them.
LoggedBefore ==
  {e \in Created : /\ e.eventId \in query.prior
                   /\ Matches(e, query.startDate, query.endDate, query.query)}
C32_StatsCommandSeesBuffered ==
  query.status = "ok" =>
    /\ \A e \in LoggedBefore : Buffered(e) => InSeq(e, query.result)
    /\ Len(query.result) >= Cardinality(LoggedBefore)

\* C33: while every append succeeds, the records of a partition stand in the
\* order in which logEvent enqueued them (eventIds are assigned in that
\* order), and the batch of every completed append is one contiguous run of
\* lines of its partition.
IsRunOf(batch, lines) ==
  \E offset \in 0..Len(lines) :
    /\ offset + Len(batch) <= Len(lines)
    /\ SubSeq(lines, offset + 1, offset + Len(batch)) = batch
C33_FifoContiguous ==
  nfail = 0 =>
    /\ \A k \in Keys : \A i \in DOMAIN files[k] : \A j \in DOMAIN files[k] :
         i < j => files[k][i].eventId <= files[k][j].eventId
    /\ \A f \in appends : f.stage = "ok" => IsRunOf(f.events, files[f.dateKey])

\* ---- the first moments of a service whose log directory does not exist ----
\* the fs.mkdir(logsDirectory, { recursive: true }) the constructor started
\* without awaiting it completes
EnsureLogsDirectory ==
  /\ logsDirectory = "creating"
  /\ logsDirectory' = "present"
  /\ UNCHANGED <<now, created, writeQueue, writeTimeout, armed, files,
                 appends, nfail, returned, thrown, logged, duringFlush,
                 query, cleanupCall, calls>>

\* fs.appendFile runs before that mkdir has made the directory: it fails
\* with ENOENT, and appendEventsToFile rethrows
AppendNoDirectory(f) ==
  /\ f \in appends /\ f.stage = "io"
  /\ logsDirectory = "creating"
  /\ nfail < MaxFailures
  /\ nfail' = nfail + 1
  /\ appends' = (appends \ {f}) \cup {[f EXCEPT !.stage = "ENOENT"]}
  /\ UNCHANGED <<logsDirectory, now, created, writeQueue, writeTimeout, armed,
                 files, returned, thrown, logged, duringFlush, query,
                 cleanupCall, calls>>

\* new AnalyticsService() where no log directory exists yet, and the same
\* service after batchSize - 1 logEvent calls made at once
ConstructInit ==
  /\ now = 0
  /\ InitFresh \/ InitAlmostFull
  /\ logsDirectory = "creating"
  /\ files = [k \in Keys |-> <<>>]
  /\ appends = {}
  /\ nfail = 0
  /\ thrown = {}
  /\ logged = [k \in Keys |-> 0]
  /\ duringFlush = {}
  /\ query = IdleQuery
  /\ cleanupCall = IdleCleanup
  /\ calls = [log |-> 0, other |-> 0]
  /\ handler = IdleHandler
  /\ proc = Started

\* the calls made before the first flushInterval has elapsed: no timer is due
ConstructNext ==
  \/ EnsureLogsDirectory /\ UNCHANGED bot
  \/ \E d \in LogInputs : LogEvent(d) /\ UNCHANGED bot
  \/ \E f \in appends : AppendOk(f) /\ UNCHANGED bot
  \/ \E f \in appends : AppendNoDirectory(f) /\ UNCHANGED bot
  \/ \E f \in appends : LogEventResume(f) /\ UNCHANGED bot
  \/ GetStatsSince /\ UNCHANGED bot
  \/ \E f \in appends : QueryFlushResume(f) /\ UNCHANGED bot
  \/ QueryLoad /\ UNCHANGED bot
  \/ Cleanup /\ UNCHANGED bot
  \/ \E f \in appends : CleanupFlushResume(f) /\ UNCHANGED bot

ConstructSpec == ConstructInit /\ [][ConstructNext]_vars

\* C34: no append fails for want of the log directory: a flush issued at any
\* point after construction finds the directory or creates it.
C34_AppendFindsDirectory ==
  \A f \in appends : f.stage # "ENOENT"

\* C35: flushEvents(k) changes only date-key k: every step of a flush of k
\* (its append completing, its resumption) leaves the queue, the timer and
\* the partition of every other date-key as they were; and a logEvent whose
\* event falls on date-key k leaves the queue and the timer of every other
\* date-key as they were.
SameQueueAndTimer(j) ==
  /\ Has(writeQueue', j) = Has(writeQueue, j)
  /\ Get(writeQueue', j) = Get(writeQueue, j)
  /\ writeTimeout'[j] = writeTimeout[j]
  /\ armed'[j] = armed[j]
FlushStep(k) == \E f \in appends : f.dateKey = k /\ f \notin appends'
LogEventStepOf(k) ==
  /\ Len(created') = Len(created) + 1
  /\ KeyOf(created'[Len(created')].timestamp) = k
C35_OtherKeysUntouched ==
  [][\A k \in Keys : \A j \in Keys \ {k} :
       /\ FlushStep(k) => SameQueueAndTimer(j) /\ files'[j] = files[j]
       /\ LogEventStepOf(k) => SameQueueAndTimer(j)]_vars
C35_Witness ==
  \E f \in appends : \E j \in Keys \ {f.dateKey} :
    /\ f.stage = "ok" /\ files[f.dateKey] # <<>>
    /\ Get(writeQueue, j) # <<>> /\ writeTimeout[j] = "pending"
    /\ files[j] = <<>>

\* C36: a handled app_mention and a handled direct message each log exactly
\* one analytics event, whether the handling succeeded or threw, and the
\* event carries hasError = true when it threw; a message event that is no
\* direct message or that comes from a bot logs none.  Events are created
\* only by a handler's finally block, one per call.
HandlerDone == handler.pc = "done"
LoggedOne ==
  /\ handler.ev \in DOMAIN created
  /\ handler.errorStatus = "true" => HasError(created[handler.ev]) = "true"
  /\ handler.errorStatus # "true" => HasError(created[handler.ev]) = "false"
C36_OneEventPerInteraction ==
  [][/\ HandlerDone' =>
          IF handler'.name \in {"appMention", "directMessage"}
          THEN LoggedOne' ELSE handler'.ev = 0
     /\ created' # created =>
          /\ Len(created') = Len(created) + 1
          /\ handler.pc = "finally" /\ handler.ev = 0
          /\ handler'.ev = Len(created')
     /\ (handler.ev # 0 /\ handler'.ev = handler.ev) => created' = created]_vars
C36_Witness ==
  /\ HandlerDone /\ handler.name = "appMention"
  /\ handler.errorStatus = "true" /\ handler.rethrow
  /\ LoggedOne
  /\ Len(created) = batchSize - 1 + MaxEvents

\* ---- the round trip of an event through its partition ----
\* eventData as the callers build it: every member given; optional members
\* left undefined; and an object that, against its type, brings an eventId
\* and a timestamp of its own
SuppliedEventId == 0
SuppliedTimestamp == 0
RoundTripInputs ==
  {[user |-> "U1", channel |-> "C1", channelType |-> "channel",
    command |-> "help", query |-> "hi", responseTime |-> 1,
    tokensUsed |-> [input |-> 1, output |-> 2, total |-> 3],
    errorStatus |-> "true"],
   [user |-> "U2", channel |-> "D1", channelType |-> "im",
    command |-> undefined, query |-> undefined, responseTime |-> 0,
    errorStatus |-> undefined],
   [user |-> "U3", channel |-> "C1", channelType |-> "channel",
    command |-> "stats", query |-> undefined, responseTime |-> 2,
    errorStatus |-> "false",
    eventId |-> SuppliedEventId, timestamp |-> SuppliedTimestamp]}

\* events logged, flushed by their timers and read back by getStats
RoundTripNext ==
  \/ Tick /\ UNCHANGED bot
  \/ \E d \in RoundTripInputs : LogEvent(d) /\ UNCHANGED bot
  \/ \E k \in Keys : TimerFire(k) /\ UNCHANGED bot
  \/ \E f \in appends : AppendOk(f) /\ UNCHANGED bot
  \/ \E f \in appends : TimerFlushResume(f) /\ UNCHANGED bot
  \/ GetStatsSince /\ UNCHANGED bot
  \/ \E f \in appends : QueryFlushResume(f) /\ UNCHANGED bot
  \/ QueryLoad /\ UNCHANGED bot

RoundTripInit == Init /\ InitFresh

RoundTripSpec == RoundTripInit /\ [][RoundTripNext]_vars

\* C37: every event a range query returns carries the user, channel,
\* channelType, command, query, responseTime, tokensUsed and errorStatus the
\* caller passed to logEvent (a member read as undefined was passed as
\* undefined or not at all), and its eventId and timestamp are the ones
\* assigned at enqueue, never the ones the caller supplied.
CallerMembers ==
  {"user", "channel", "channelType", "command", "query", "responseTime",
   "tokensUsed", "errorStatus"}
IsUndefined(object, member) ==
  member \notin DOMAIN object
    \/ (member \in StringMembers /\ object[member] = undefined)
SameMember(a, b, member) ==
  IF IsUndefined(a, member) \/ IsUndefined(b, member)
  THEN IsUndefined(a, member) /\ IsUndefined(b, member)
  ELSE a[member] = b[member]
PassedAs(r, eventData) ==
  /\ r.user = eventData.user
  /\ \A member \in CallerMembers : SameMember(r, eventData, member)
ReturnedAsLogged ==
  query.status = "ok" =>
    \A i \in DOMAIN query.result :
      LET r == query.result[i]
      IN /\ \E eventData \in RoundTripInputs : PassedAs(r, eventData)
         /\ r.eventId \in DOMAIN created
         /\ r.timestamp = created[r.eventId].timestamp
AssignedAtEnqueue ==
  created' # created =>
    /\ Len(created') = Len(created) + 1
    /\ created'[Len(created')].eventId = Len(created')
    /\ created'[Len(created')].timestamp = now
C37_RoundTrip == [][ReturnedAsLogged' /\ AssignedAtEnqueue]_vars
C37_Witness ==
  /\ query.status = "ok"
  /\ \E i \in DOMAIN query.result : query.result[i].user = "U2"
  /\ \E i \in DOMAIN query.result : query.result[i].user = "U3"

\* C38: at most one flush timer is armed per date-key, and every armed timer
\* is the one the timer map records for its key: an entry leaves the map
\* only with its timer cancelled.
C38_ArmedTimerIsRecorded ==
  \A k \in Keys :
    /\ armed[k] <= 1
    /\ armed[k] > 0 => writeTimeout[k] = "pending"
C38_Witness ==
  /\ cleanupCall.status = "ok" /\ cleanupCall.prior # {}
  /\ \E k \in Keys :
       /\ files[k] # <<>>
       /\ armed[k] = 1 /\ writeTimeout[k] = "pending"
====
